---- MODULE Spec2Model ----
(***************************************************************************)
(* desktop-snake (src/src/main.rs): a Snake game whose display is a folder *)
(* of bitmap files.  The main thread clears the folder, pre-renders the    *)
(* grid, starts a keyboard listener thread and then runs the game loop;    *)
(* the listener thread turns the snake through a Mutex<SnakeDir>.          *)
(***************************************************************************)
EXTENDS Integers, Sequences, FiniteSets, TLC

VARIABLES
    config,         \* Config { width, height, offset }
    fs,             \* the desktop "snake" directory: file name -> entry
    pc,             \* position of the main thread
    entries,        \* clear_old_files: directory entries not yet visited
    o, y, x,        \* counters of the pre-render loops
    snake_bits,     \* Vec of cells, oldest first
    snake_dir,      \* the value inside Arc<Mutex<SnakeDir>>
    lock,           \* holder of the mutex
    updates,        \* Vec of (x, y, val)
    food_pos,       \* the food cell
    tick_dir,       \* the SnakeDir the latest tick matched on at line 125
    new_xy,         \* (new_x, new_y) of lines 125-130, before wrap
    ui,             \* position of the flush loop in updates
    lpc,            \* position of the listener thread
    k,              \* the key of the press the callback is handling
    new_dir,        \* the callback's Option<SnakeDir>
    ticks,          \* number of ticks started
    call            \* a call of a pure function: arguments and result

vars == <<config, fs, pc, entries, o, y, x, snake_bits, snake_dir, lock,
          updates, food_pos, tick_dir, new_xy, ui, lpc, k, new_dir, ticks, call>>

mainVars == <<config, fs, pc, entries, o, y, x, snake_bits, updates,
              food_pos, tick_dir, new_xy, ui, ticks>>
listenerVars == <<lpc, k, new_dir>>

(***************************************************************************)
(* Bounds of the model.                                                    *)
(***************************************************************************)
\* ticks the game loop may start
MaxTicks == 3
\* rand::random::<usize>() draws from 0 .. MaxRand
MaxRand == 10
\* wrap is called on val in -MaxWrapVal .. MaxWrapVal, max in 1 .. MaxWrapDim
MaxWrapVal == 7
MaxWrapDim == 5
\* ticks the game loop may start under the fair specification
LiveTicks == 2

(***************************************************************************)
(* Values.                                                                 *)
(***************************************************************************)
None == <<>>
Some(v) == <<v>>

SnakeDir == {"Up", "Down", "Left", "Right"}

\* rdev::Key: the four arrows and one of the other keys
Keys == {"UpArrow", "DownArrow", "LeftArrow", "RightArrow", "KeyA"}

\* rdev::EventType
EventTypes == [type : {"KeyPress", "KeyRelease"}, key : Keys]
                  \cup {[type |-> "MouseMove", key |-> "KeyA"]}

\* slice::last
Last(s) == s[Len(s)]

\* Vec::remove(0): the element removed, and the Vec left
First(s) == s[1]

\* Vec::pop in the place of Vec::remove(0): the newest element goes
RemoveLast(s) == SubSeq(s, 1, Len(s) - 1)

RemoveFirst(s) == SubSeq(s, 2, Len(s))

\* the configurations the model runs the program on
Configs ==
    { [width |-> 3, height |-> 2, offset |-> 1],
      [width |-> 2, height |-> 2, offset |-> 0],
      [width |-> 3, height |-> 1, offset |-> 0] }

ScenarioConfig == [width |-> 10, height |-> 10, offset |-> 0]

(***************************************************************************)
(* The file system.                                                        *)
(***************************************************************************)
File(data) == [kind |-> "file", data |-> data]
Dir == [kind |-> "dir", data |-> "none"]

EmptyDir == [n \in {} |-> Dir]

\* what a previous run and the user may have left in the directory
JunkDir ==
    ("ds_p0-0.bmp" :> File("red")) @@ ("ds_p7-7.bmp" :> File("red")) @@
    ("ds_o5.bmp" :> File("black")) @@ ("ds_dir" :> Dir) @@
    ("notes.txt" :> File("text"))

InitialDirs == {EmptyDir, JunkDir}

\* format!("ds_p{}-{}.bmp", y, x)
CellFile(row, col) == "ds_p" \o ToString(row) \o "-" \o ToString(col) \o ".bmp"

\* format!("ds_o{}.bmp", o)
DecoyFile(i) == "ds_o" \o ToString(i) \o ".bmp"

\* str::ends_with in the place of str::starts_with
EndsWith(s, prefix) ==
    Len(s) >= Len(prefix) /\ SubSeq(s, Len(s) - Len(prefix) + 1, Len(s)) = prefix

\* str::starts_with
StartsWith(s, prefix) ==
    Len(s) >= Len(prefix) /\ SubSeq(s, 1, Len(prefix)) = prefix

\* path.is_file()
IsFile(dir, name) == dir[name].kind = "file"

\* Image::save: creates the file or overwrites it
Save(dir, name, img) ==
    [n \in DOMAIN dir \cup {name} |-> IF n = name THEN File(img) ELSE dir[n]]

\* std::fs::remove_file
RemoveFile(dir, name) == [n \in DOMAIN dir \ {name} |-> dir[n]]

(***************************************************************************)
(* Pure functions of main.rs.                                              *)
(***************************************************************************)
\* wrap that stops at the edge: the nearest coordinate of the grid
wrapClamp(val, max) ==
    IF val < 0 THEN 0
    ELSE IF val >= max THEN max - 1
    ELSE val

\* wrap with `val > max` in the place of `val >= max`
wrapOffByOne(val, max) ==
    IF val < 0 THEN max - 1
    ELSE IF val > max THEN 0
    ELSE val

\* fn wrap(val: i32, max: i32) -> i32
wrap(val, max) ==
    IF val < 0 THEN max - 1
    ELSE IF val >= max THEN 0
    ELSE val

\* impl TryFrom<rdev::Key> for SnakeDir: Some(dir) for Ok(dir), None for Err(())
try_from(key) ==
    CASE key = "UpArrow" -> Some("Up")
      [] key = "DownArrow" -> Some("Down")
      [] key = "LeftArrow" -> Some("Left")
      [] key = "RightArrow" -> Some("Right")
      [] OTHER -> None

\* a filter that only drops the press of the current direction
TurnFilterNotSame(cur, key) ==
    IF try_from(key) # None /\ try_from(key) # Some(cur)
    THEN try_from(key) ELSE None

\* the match of lines 98-107: the callback's new_dir
TurnFilter(cur, key) ==
    IF cur \in {"Up", "Down"}
    THEN IF try_from(key) \in {Some("Left"), Some("Right")}
         THEN try_from(key) ELSE None
    ELSE IF try_from(key) \in {Some("Up"), Some("Down")}
         THEN try_from(key) ELSE None

\* the match with the arms of Left and Right exchanged
StepMirrored(dir, head) ==
    CASE dir = "Up" -> <<head[1], head[2] - 1>>
      [] dir = "Down" -> <<head[1], head[2] + 1>>
      [] dir = "Left" -> <<head[1] + 1, head[2]>>
      [] dir = "Right" -> <<head[1] - 1, head[2]>>

\* the match of lines 125-130: the head moved one cell, before wrap
Step(dir, head) ==
    CASE dir = "Up" -> <<head[1], head[2] - 1>>
      [] dir = "Down" -> <<head[1], head[2] + 1>>
      [] dir = "Left" -> <<head[1] - 1, head[2]>>
      [] dir = "Right" -> <<head[1] + 1, head[2]>>

\* lines 132-135 with both coordinates wrapped at the width
WrapCellSquare(c) == <<wrap(c[1], config.width), wrap(c[2], config.width)>>

\* lines 132-135
WrapCell(c) == <<wrap(c[1], config.width), wrap(c[2], config.height)>>

\* lines 144-147, for the two values rand::random returns
RandomCell(r1, r2) == <<r1 % config.width, r2 % config.height>>

NoCall == [fn |-> "none", args |-> <<>>, ret |-> None]

(***************************************************************************)
(* Initial state: lines 30-32 done, the locals of lines 55-69 at their     *)
(* initial values, the listener thread not yet spawned.                    *)
(***************************************************************************)
InitWith(cfgs) ==
    /\ config \in cfgs
    /\ fs \in InitialDirs
    /\ pc = "clear_old_files"
    /\ entries = {}
    /\ o = 0 /\ y = 0 /\ x = 0
    /\ snake_bits = <<(<<1, 1>>)>>
    /\ snake_dir = "Right"
    /\ lock = "free"
    /\ updates = <<>>
    /\ food_pos = <<2, 1>>
    /\ tick_dir = None
    /\ new_xy = <<0, 0>>
    /\ ui = 0
    /\ lpc = "unborn"
    /\ k = None
    /\ new_dir = None
    /\ ticks = 0
    /\ call = NoCall

Init == InitWith(Configs)

(***************************************************************************)
(* Startup, lines 34-53 and 168-185.                                       *)
(***************************************************************************)
\* a process that outlives the return of main
RunningAlways == TRUE

\* the threads run while main has neither returned an error nor panicked
Running == pc \notin {"error", "panic"}

\* a `?` that returns the I/O error from main
IoError ==
    /\ pc \in {"clear_old_files", "clear_loop", "save_decoys", "save_cells", "flush"}
    /\ pc = "clear_loop" => entries # {}
    /\ pc = "save_decoys" => o < config.offset
    /\ pc = "save_cells" => y < config.height /\ x < config.width
    /\ pc = "flush" => ui <= Len(updates)
    /\ pc' = "error"
    /\ UNCHANGED <<config, fs, entries, o, y, x, snake_bits, snake_dir, lock,
                   updates, food_pos, tick_dir, new_xy, ui, lpc, k, new_dir, ticks, call>>

\* line 169: std::fs::read_dir(desktop)
ReadDir ==
    /\ pc = "clear_old_files"
    /\ entries' = DOMAIN fs
    /\ pc' = "clear_loop"
    /\ UNCHANGED <<config, fs, o, y, x, snake_bits, snake_dir, lock,
                   updates, food_pos, tick_dir, new_xy, ui, lpc, k, new_dir, ticks, call>>

\* lines 169-182: one entry of the directory, in the order the system gives
ClearEntry ==
    /\ pc = "clear_loop"
    /\ \E e \in entries :
        /\ entries' = entries \ {e}
        /\ fs' = IF IsFile(fs, e) /\ StartsWith(e, "ds_")
                 THEN RemoveFile(fs, e)
                 ELSE fs
    /\ UNCHANGED <<config, pc, o, y, x, snake_bits, snake_dir, lock,
                   updates, food_pos, tick_dir, new_xy, ui, lpc, k, new_dir, ticks, call>>

\* line 184, then lines 36-43
ClearDone ==
    /\ pc = "clear_loop"
    /\ entries = {}
    /\ pc' = "save_decoys"
    /\ o' = 0
    /\ UNCHANGED <<config, fs, entries, y, x, snake_bits, snake_dir, lock,
                   updates, food_pos, tick_dir, new_xy, ui, lpc, k, new_dir, ticks, call>>

\* lines 45-47
SaveDecoy ==
    /\ pc = "save_decoys"
    /\ IF o < config.offset
       THEN /\ fs' = Save(fs, DecoyFile(o), "black")
            /\ o' = o + 1
            /\ UNCHANGED <<pc, y, x>>
       ELSE /\ pc' = "save_cells"
            /\ y' = 0 /\ x' = 0
            /\ UNCHANGED <<fs, o>>
    /\ UNCHANGED <<config, entries, snake_bits, snake_dir, lock,
                   updates, food_pos, tick_dir, new_xy, ui, lpc, k, new_dir, ticks, call>>

\* lines 49-53
SaveCell ==
    /\ pc = "save_cells"
    /\ IF y < config.height
       THEN IF x < config.width
            THEN /\ fs' = Save(fs, CellFile(y, x), "black")
                 /\ x' = x + 1
                 /\ UNCHANGED <<pc, y>>
            ELSE /\ y' = y + 1
                 /\ x' = 0
                 /\ UNCHANGED <<pc, fs>>
       ELSE /\ pc' = "spawn"
            /\ UNCHANGED <<fs, y, x>>
    /\ UNCHANGED <<config, entries, o, snake_bits, snake_dir, lock,
                   updates, food_pos, tick_dir, new_xy, ui, lpc, k, new_dir, ticks, call>>

\* lines 114-118: std::thread::spawn
Spawn ==
    /\ pc = "spawn"
    /\ pc' = "loop"
    /\ lpc' = "listen"
    /\ UNCHANGED <<config, fs, entries, o, y, x, snake_bits, snake_dir, lock,
                   updates, food_pos, tick_dir, new_xy, ui, k, new_dir, ticks, call>>

(***************************************************************************)
(* The game loop, lines 120-165.                                           *)
(***************************************************************************)
\* lines 121-125 with a loop that starts a tick only once the direction
\* differs from the one the tick before read
TickLockWaitsForTurn ==
    /\ pc = "loop"
    /\ ticks < MaxTicks
    /\ tick_dir = None \/ tick_dir # Some(snake_dir)
    /\ IF snake_bits = <<>>
       THEN /\ pc' = "panic"
            /\ UNCHANGED <<lock, ticks>>
       ELSE /\ lock = "free"
            /\ lock' = "main"
            /\ pc' = "read_dir"
            /\ ticks' = ticks + 1
    /\ UNCHANGED <<config, fs, entries, o, y, x, snake_bits, snake_dir,
                   updates, food_pos, tick_dir, new_xy, ui, lpc, k, new_dir, call>>

\* line 121, then the lock() of line 125; last().unwrap() panics on an
\* empty Vec
TickLock ==
    /\ pc = "loop"
    /\ ticks < MaxTicks
    /\ IF snake_bits = <<>>
       THEN /\ pc' = "panic"
            /\ UNCHANGED <<lock, ticks>>
       ELSE /\ lock = "free"
            /\ lock' = "main"
            /\ pc' = "read_dir"
            /\ ticks' = ticks + 1
    /\ UNCHANGED <<config, fs, entries, o, y, x, snake_bits, snake_dir,
                   updates, food_pos, tick_dir, new_xy, ui, lpc, k, new_dir, call>>

\* lines 125-130: the match under the guard, which is dropped at the `;`
TickRead ==
    /\ pc = "read_dir"
    /\ tick_dir' = Some(snake_dir)
    /\ new_xy' = Step(snake_dir, Last(snake_bits))
    /\ lock' = "free"
    /\ pc' = "push"
    /\ UNCHANGED <<config, fs, entries, o, y, x, snake_bits, snake_dir,
                   updates, food_pos, ui, lpc, k, new_dir, ticks, call>>

\* lines 132-138 with the step taken again from the shared direction, as
\* it is at the push
TickPushRereads ==
    /\ pc = "push"
    /\ snake_bits' = Append(snake_bits, WrapCell(Step(snake_dir, Last(snake_bits))))
    /\ updates' = Append(updates, <<WrapCell(Step(snake_dir, Last(snake_bits)))[1],
                                    WrapCell(Step(snake_dir, Last(snake_bits)))[2], TRUE>>)
    /\ pc' = "eat"
    /\ UNCHANGED <<config, fs, entries, o, y, x, snake_dir, lock,
                   food_pos, tick_dir, new_xy, ui, lpc, k, new_dir, ticks, call>>

\* lines 132-138 without the push of line 137
TickPushNoBody ==
    /\ pc = "push"
    /\ updates' = Append(updates, <<WrapCell(new_xy)[1], WrapCell(new_xy)[2], TRUE>>)
    /\ pc' = "eat"
    /\ UNCHANGED <<config, fs, entries, o, y, x, snake_bits, snake_dir, lock,
                   food_pos, tick_dir, new_xy, ui, lpc, k, new_dir, ticks, call>>

\* lines 132-138
TickPush ==
    /\ pc = "push"
    /\ snake_bits' = Append(snake_bits, WrapCell(new_xy))
    /\ updates' = Append(updates, <<WrapCell(new_xy)[1], WrapCell(new_xy)[2], TRUE>>)
    /\ pc' = "eat"
    /\ UNCHANGED <<config, fs, entries, o, y, x, snake_dir, lock,
                   food_pos, tick_dir, new_xy, ui, lpc, k, new_dir, ticks, call>>

\* lines 140-142: the new head is not the food
TickShift ==
    /\ pc = "eat"
    /\ Last(snake_bits) # food_pos
    /\ snake_bits' = RemoveFirst(snake_bits)
    /\ updates' = Append(updates, <<First(snake_bits)[1], First(snake_bits)[2], FALSE>>)
    /\ pc' = "flush"
    /\ ui' = 1
    /\ UNCHANGED <<config, fs, entries, o, y, x, snake_dir, lock,
                   food_pos, tick_dir, new_xy, lpc, k, new_dir, ticks, call>>

\* lines 143-149 taken whatever the new head is
TickEatAlways ==
    /\ pc = "eat"
    /\ \E r1 \in 0 .. MaxRand, r2 \in 0 .. MaxRand :
        /\ food_pos' = RandomCell(r1, r2)
        /\ updates' = Append(updates, <<RandomCell(r1, r2)[1], RandomCell(r1, r2)[2], TRUE>>)
    /\ pc' = "flush"
    /\ ui' = 1
    /\ UNCHANGED <<config, fs, entries, o, y, x, snake_bits, snake_dir, lock,
                   tick_dir, new_xy, lpc, k, new_dir, ticks, call>>

\* lines 143-149: the new head is the food
TickEat ==
    /\ pc = "eat"
    /\ Last(snake_bits) = food_pos
    /\ \E r1 \in 0 .. MaxRand, r2 \in 0 .. MaxRand :
        /\ food_pos' = RandomCell(r1, r2)
        /\ updates' = Append(updates, <<RandomCell(r1, r2)[1], RandomCell(r1, r2)[2], TRUE>>)
    /\ pc' = "flush"
    /\ ui' = 1
    /\ UNCHANGED <<config, fs, entries, o, y, x, snake_bits, snake_dir, lock,
                   tick_dir, new_xy, lpc, k, new_dir, ticks, call>>

\* the flush loop run from the last update to the first
FlushBackwards ==
    /\ pc = "flush"
    /\ ui <= Len(updates)
    /\ fs' = Save(fs, CellFile(updates[Len(updates) + 1 - ui][2],
                                updates[Len(updates) + 1 - ui][1]),
                  IF updates[Len(updates) + 1 - ui][3] THEN "red" ELSE "black")
    /\ ui' = ui + 1
    /\ UNCHANGED <<config, pc, entries, o, y, x, snake_bits, snake_dir, lock,
                   updates, food_pos, tick_dir, new_xy, lpc, k, new_dir, ticks, call>>

\* lines 151-154: one update written
Flush ==
    /\ pc = "flush"
    /\ ui <= Len(updates)
    /\ fs' = Save(fs, CellFile(updates[ui][2], updates[ui][1]),
                  IF updates[ui][3] THEN "red" ELSE "black")
    /\ ui' = ui + 1
    /\ UNCHANGED <<config, pc, entries, o, y, x, snake_bits, snake_dir, lock,
                   updates, food_pos, tick_dir, new_xy, lpc, k, new_dir, ticks, call>>

\* line 156
Clear ==
    /\ pc = "flush"
    /\ ui > Len(updates)
    /\ updates' = <<>>
    /\ pc' = "sleep"
    /\ UNCHANGED <<config, fs, entries, o, y, x, snake_bits, snake_dir, lock,
                   food_pos, tick_dir, new_xy, ui, lpc, k, new_dir, ticks, call>>

\* line 164
Sleep ==
    /\ pc = "sleep"
    /\ pc' = "loop"
    /\ UNCHANGED <<config, fs, entries, o, y, x, snake_bits, snake_dir, lock,
                   updates, food_pos, tick_dir, new_xy, ui, lpc, k, new_dir, ticks, call>>

(***************************************************************************)
(* The listener thread, lines 95-118.                                      *)
(***************************************************************************)
\* line 115: listen subscribes to the key events
ListenStart ==
    /\ Running
    /\ lpc = "listen"
    /\ lpc' = "idle"
    /\ UNCHANGED <<mainVars, snake_dir, lock, k, new_dir, call>>

\* lines 115-117 with the error taking the process down
ListenFailFatal ==
    /\ Running
    /\ lpc \in {"listen", "idle"}
    /\ lpc' = "dead"
    /\ pc' = "error"
    /\ UNCHANGED <<config, fs, entries, o, y, x, snake_bits, snake_dir, lock,
                   updates, food_pos, tick_dir, new_xy, ui, k, new_dir, ticks, call>>

\* lines 115-117: listen returns an error, the thread ends
ListenFail ==
    /\ Running
    /\ lpc \in {"listen", "idle"}
    /\ lpc' = "dead"
    /\ UNCHANGED <<mainVars, snake_dir, lock, k, new_dir, call>>

\* lines 95-97: an event reaches the callback
Event ==
    /\ Running
    /\ lpc = "idle"
    /\ \E ev \in EventTypes :
        IF ev.type = "KeyPress"
        THEN /\ k' = Some(ev.key)
             /\ lpc' = "cb_lock"
        ELSE UNCHANGED <<lpc, k>>
    /\ UNCHANGED <<mainVars, snake_dir, lock, new_dir, call>>

\* line 98: snake_dir_2.lock()
CbLock ==
    /\ Running
    /\ lpc = "cb_lock"
    /\ lock = "free"
    /\ lock' = "listener"
    /\ lpc' = "cb_filter"
    /\ UNCHANGED <<mainVars, snake_dir, k, new_dir, call>>

\* lines 98-108 with the guard of line 98 kept across the `if let`
CbFilterKeepsGuard ==
    /\ Running
    /\ lpc = "cb_filter"
    /\ IF TurnFilter(snake_dir, k[1]) = None
       THEN /\ lpc' = "idle"
            /\ lock' = "free"
            /\ k' = None
            /\ new_dir' = None
       ELSE /\ lpc' = "cb_lock2"
            /\ lock' = lock
            /\ new_dir' = TurnFilter(snake_dir, k[1])
            /\ k' = k
    /\ UNCHANGED <<mainVars, snake_dir, call>>

\* lines 98-108: the match under the guard, dropped at the `;`, and the
\* `if let` of line 108
CbFilter ==
    /\ Running
    /\ lpc = "cb_filter"
    /\ lock' = "free"
    /\ IF TurnFilter(snake_dir, k[1]) = None
       THEN /\ lpc' = "idle"
            /\ k' = None
            /\ new_dir' = None
       ELSE /\ lpc' = "cb_lock2"
            /\ new_dir' = TurnFilter(snake_dir, k[1])
            /\ k' = k
    /\ UNCHANGED <<mainVars, snake_dir, call>>

\* line 109: snake_dir_2.lock()
CbLock2 ==
    /\ Running
    /\ lpc = "cb_lock2"
    /\ lock = "free"
    /\ lock' = "listener"
    /\ lpc' = "cb_write"
    /\ UNCHANGED <<mainVars, snake_dir, k, new_dir, call>>

\* line 109: the assignment through the guard
CbWrite ==
    /\ Running
    /\ lpc = "cb_write"
    /\ snake_dir' = new_dir[1]
    /\ lock' = "free"
    /\ lpc' = "idle"
    /\ k' = None
    /\ new_dir' = None
    /\ UNCHANGED <<mainVars, call>>

MainStep ==
    \/ IoError
    \/ ReadDir
    \/ ClearEntry
    \/ ClearDone
    \/ SaveDecoy
    \/ SaveCell
    \/ Spawn
    \/ TickLock
    \/ TickRead
    \/ TickPush
    \/ TickShift
    \/ TickEat
    \/ Flush
    \/ Clear
    \/ Sleep

ListenerStep ==
    \/ ListenStart
    \/ ListenFail
    \/ Event
    \/ CbLock
    \/ CbFilter
    \/ CbLock2
    \/ CbWrite

Next == MainStep \/ ListenerStep

Spec == Init /\ [][Next]_vars

(***************************************************************************)
(* The end-to-end scenario: a 10x10 grid and no key ever pressed.  The     *)
(* listener subscribes and then waits.                                     *)
(***************************************************************************)
InitScenario == InitWith({ScenarioConfig})

NextScenario == MainStep \/ ListenStart

SpecScenario == InitScenario /\ [][NextScenario]_vars

(***************************************************************************)
(* The program without I/O failures under fair scheduling: a thread that   *)
(* can take a step takes it, and a thread that waits for the mutex gets it *)
(* if it is free again and again.  The listener owes no step: the          *)
(* operating system may deliver no event at all.                           *)
(***************************************************************************)
LiveConfig == [width |-> 3, height |-> 2, offset |-> 1]

InitLive == InitWith({LiveConfig}) /\ fs = JunkDir

\* the loop of line 120, stopped after LiveTicks ticks
TickLockLive == ticks < LiveTicks /\ TickLock

MainLive ==
    \/ ReadDir
    \/ ClearEntry
    \/ ClearDone
    \/ SaveDecoy
    \/ SaveCell
    \/ Spawn
    \/ TickLockLive
    \/ TickRead
    \/ TickPush
    \/ TickShift
    \/ TickEat
    \/ Flush
    \/ Clear
    \/ Sleep

NextLive == MainLive \/ ListenerStep

FairLive ==
    /\ WF_vars(ReadDir \/ ClearEntry \/ ClearDone \/ SaveDecoy \/ SaveCell \/ Spawn)
    /\ SF_vars(TickLockLive)
    /\ WF_vars(TickRead \/ TickPush \/ TickShift \/ TickEat \/ Flush \/ Clear \/ Sleep)
    /\ WF_vars(CbFilter \/ CbWrite)

SpecLive == InitLive /\ [][NextLive]_vars /\ FairLive

(***************************************************************************)
(* wrap on its own: one call, on arguments drawn from the bounds.          *)
(***************************************************************************)
WrapArgs == (-MaxWrapVal .. MaxWrapVal) \X (1 .. MaxWrapDim)

InitWrap ==
    /\ config = [width |-> 3, height |-> 2, offset |-> 1]
    /\ fs = EmptyDir
    /\ pc = "call"
    /\ entries = {}
    /\ o = 0 /\ y = 0 /\ x = 0
    /\ snake_bits = <<(<<1, 1>>)>>
    /\ snake_dir = "Right"
    /\ lock = "free"
    /\ updates = <<>>
    /\ food_pos = <<2, 1>>
    /\ tick_dir = None
    /\ new_xy = <<0, 0>>
    /\ ui = 0
    /\ lpc = "unborn"
    /\ k = None
    /\ new_dir = None
    /\ ticks = 0
    /\ call \in [fn : {"wrap"}, args : WrapArgs, ret : {None}]

CallWrap ==
    /\ pc = "call"
    /\ call.fn = "wrap"
    /\ call.ret = None
    /\ call' = [call EXCEPT !.ret = Some(wrap(call.args[1], call.args[2]))]
    /\ UNCHANGED <<mainVars, snake_dir, lock, listenerVars>>

SpecWrap == InitWrap /\ [][CallWrap]_vars

(***************************************************************************)
(* The step of a tick on its own, lines 125-135: one call, on every grid   *)
(* of the bounds, every cell of the grid and every direction.              *)
(***************************************************************************)
StepGrids == [width : 1 .. MaxWrapDim, height : 1 .. MaxWrapDim, offset : {0}]

InitStep ==
    /\ config \in StepGrids
    /\ fs = EmptyDir
    /\ pc = "call"
    /\ entries = {}
    /\ o = 0 /\ y = 0 /\ x = 0
    /\ snake_bits = <<(<<1, 1>>)>>
    /\ snake_dir = "Right"
    /\ lock = "free"
    /\ updates = <<>>
    /\ food_pos = <<2, 1>>
    /\ tick_dir = None
    /\ new_xy = <<0, 0>>
    /\ ui = 0
    /\ lpc = "unborn"
    /\ k = None
    /\ new_dir = None
    /\ ticks = 0
    /\ call \in [fn : {"step"},
                 args : SnakeDir \X ((0 .. MaxWrapDim - 1) \X (0 .. MaxWrapDim - 1)),
                 ret : {None}]
    /\ call.args[2][1] < config.width
    /\ call.args[2][2] < config.height

CallStep ==
    /\ pc = "call"
    /\ call.fn = "step"
    /\ call.ret = None
    /\ call' = [call EXCEPT !.ret = Some(WrapCell(Step(call.args[1], call.args[2])))]
    /\ UNCHANGED <<mainVars, snake_dir, lock, listenerVars>>

SpecStep == InitStep /\ [][CallStep]_vars

(***************************************************************************)
(* Properties.                                                             *)
(***************************************************************************)
Axis(d) == IF d \in {"Up", "Down"} THEN "vertical" ELSE "horizontal"

\* key maps to an arrow direction on the other axis than d
Perpendicular(d, key) ==
    try_from(key) # None /\ Axis(try_from(key)[1]) # Axis(d)

Opposite(a, b) ==
    <<a, b>> \in {<<"Up", "Down">>, <<"Down", "Up">>,
                  <<"Left", "Right">>, <<"Right", "Left">>}

InGrid(c) ==
    /\ 0 <= c[1] /\ c[1] < config.width
    /\ 0 <= c[2] /\ c[2] < config.height

\* C1: the callback passes a press on to the write iff the key is an arrow
\* on the other axis than the shared direction; the write stores that
\* arrow's direction; nothing else changes the shared direction, so every
\* change of it goes from one axis to the other.
C1_TurnFilter ==
    [][ /\ (lpc = "cb_filter" /\ lpc' # "cb_filter") =>
            /\ snake_dir' = snake_dir
            /\ (lpc' = "cb_lock2") <=> Perpendicular(snake_dir, k[1])
            /\ (lpc' = "idle") <=> ~Perpendicular(snake_dir, k[1])
        /\ (lpc = "cb_write" /\ lpc' # "cb_write") =>
            /\ Perpendicular(snake_dir, k[1])
            /\ snake_dir' = try_from(k[1])[1]
        /\ (snake_dir' # snake_dir) =>
            /\ lpc = "cb_write"
            /\ Axis(snake_dir') # Axis(snake_dir)
      ]_vars

\* two turns have been accepted: Right to Up or Down, then to Left
C1_Witness == snake_dir = "Left" /\ lpc = "idle"

\* C2: the direction a tick reads is never the opposite of the direction
\* the tick before it read.
C2_NoReversal ==
    [][ (tick_dir # None /\ tick_dir' # None) =>
            ~Opposite(tick_dir[1], tick_dir'[1]) ]_vars

\* C3: a tick appends one cell; if that cell is the food the body keeps it
\* (one longer than before the tick) and no update clears a cell; if not,
\* the oldest cell is removed (as long as before the tick) and exactly one
\* update clears a cell, the removed one.
C3_Growth ==
    [][ /\ (pc = "push" /\ pc' = "eat") =>
            /\ Len(snake_bits') = Len(snake_bits) + 1
            /\ SubSeq(snake_bits', 1, Len(snake_bits)) = snake_bits
        /\ (pc = "eat" /\ pc' = "flush") =>
            IF Last(snake_bits) = food_pos
            THEN /\ snake_bits' = snake_bits
                 /\ \A i \in DOMAIN updates' : updates'[i][3]
            ELSE /\ Len(snake_bits') = Len(snake_bits) - 1
                 /\ \A i \in DOMAIN snake_bits' : snake_bits'[i] = snake_bits[i + 1]
                 /\ Cardinality({i \in DOMAIN updates' : ~updates'[i][3]}) = 1
                 /\ \E i \in DOMAIN updates' :
                        updates'[i] = <<snake_bits[1][1], snake_bits[1][2], FALSE>>
        /\ (snake_bits' # snake_bits) => pc \in {"push", "eat"}
      ]_vars

\* a tick that did not eat, after one that did
C3_Witness ==
    /\ pc = "flush" /\ Len(snake_bits) = 2
    /\ Len(updates) = 2 /\ ~updates[2][3]

\* the updates at each position of the main thread
UpdatesShape ==
    /\ pc \notin {"eat", "flush", "error"} => updates = <<>>
    /\ pc = "eat" =>
          updates = << <<Last(snake_bits)[1], Last(snake_bits)[2], TRUE>> >>
    /\ pc = "flush" =>
          /\ Len(updates) = 2
          /\ updates[1] = <<Last(snake_bits)[1], Last(snake_bits)[2], TRUE>>
          /\ \/ ~updates[2][3]
             \/ updates[2] = <<food_pos[1], food_pos[2], TRUE>>
          /\ ui \in 1 .. 3

\* C4: a tick makes two updates, the new head occupied and then the old
\* tail cleared or the new food occupied; the flush writes them in that
\* order; updates is empty outside the tick's body.
C4_Updates ==
    /\ UpdatesShape
    /\ [][ /\ UpdatesShape'
           /\ (pc = "eat" /\ pc' = "flush") =>
                /\ ui' = 1
                /\ Last(snake_bits) # food_pos =>
                      updates'[2] = <<snake_bits[1][1], snake_bits[1][2], FALSE>>
                /\ Last(snake_bits) = food_pos =>
                      updates'[2] = <<food_pos'[1], food_pos'[2], TRUE>>
           /\ (fs' # fs /\ ticks > 0) => pc = "flush" /\ ui' # ui
           /\ (pc = "flush" /\ ui' # ui) =>
                /\ ui' = ui + 1
                /\ CellFile(updates[ui][2], updates[ui][1]) \in DOMAIN fs'
                /\ fs'[CellFile(updates[ui][2], updates[ui][1])] =
                      File(IF updates[ui][3] THEN "red" ELSE "black")
                /\ \A n \in DOMAIN fs' :
                      n # CellFile(updates[ui][2], updates[ui][1]) =>
                          n \in DOMAIN fs /\ fs'[n] = fs[n]
           /\ (pc = "flush" /\ pc' = "sleep") => ui = 3
         ]_vars

\* both updates of a tick that moved without eating are written
C4_Witness ==
    /\ pc = "flush" /\ ui = 3 /\ ~updates[2][3]
    /\ updates[1][1] # updates[2][1]

\* C5: every cell of the body, the food and every update is in the grid.
C5_CellBounds ==
    (config.width > 0 /\ config.height > 0) =>
        /\ \A i \in DOMAIN snake_bits : InGrid(snake_bits[i])
        /\ InGrid(food_pos)
        /\ \A i \in DOMAIN updates : InGrid(<<updates[i][1], updates[i][2]>>)

\* the scenario's first tick: the head moves onto the food at (2,1)
ScenarioTick1 ==
    (ticks = 1 /\ pc = "flush") =>
        /\ snake_bits = << <<1, 1>>, <<2, 1>> >>
        /\ updates = << <<2, 1, TRUE>>, <<food_pos[1], food_pos[2], TRUE>> >>

\* C6 as stated: wherever the food went, the second tick moves the head to
\* (3,1), removes the tail (1,1) and makes the updates occupy (3,1), clear
\* (1,1).
C6_ScenarioAnyFood ==
    /\ ScenarioTick1
    /\ (ticks = 2 /\ pc = "flush") =>
        /\ snake_bits = << <<2, 1>>, <<3, 1>> >>
        /\ updates = << <<3, 1, TRUE>>, <<1, 1, FALSE>> >>

\* C6, amended: the second tick moves the head to (3,1); unless the food
\* was relocated to (3,1) it removes the tail (1,1) and the updates are
\* occupy (3,1), clear (1,1); if the food was relocated to (3,1) the snake
\* grows to [(1,1),(2,1),(3,1)] and the updates are occupy (3,1), occupy
\* the next food cell.
C6_Scenario ==
    /\ ScenarioTick1
    /\ [][ /\ ScenarioTick1'
           /\ (ticks = 2 /\ pc = "push" /\ pc' = "eat") =>
                Last(snake_bits') = <<3, 1>>
           /\ (ticks = 2 /\ pc = "eat" /\ pc' = "flush") =>
                IF food_pos # <<3, 1>>
                THEN /\ snake_bits' = << <<2, 1>>, <<3, 1>> >>
                     /\ updates' = << <<3, 1, TRUE>>, <<1, 1, FALSE>> >>
                ELSE /\ snake_bits' = << <<1, 1>>, <<2, 1>>, <<3, 1>> >>
                     /\ updates' = << <<3, 1, TRUE>>,
                                      <<food_pos'[1], food_pos'[2], TRUE>> >>
         ]_vars

\* the second tick of the scenario is flushed, the food lying elsewhere
C6_Witness ==
    /\ config = ScenarioConfig
    /\ ticks = 2 /\ pc = "flush" /\ ui = 3
    /\ snake_bits = << <<2, 1>>, <<3, 1>> >>
    /\ food_pos = <<7, 4>>

\* C7: wrap(v, d) is in 0 .. d-1; wrap(-1, d) = d - 1; wrap(d, d) = 0;
\* wrap(v, d) = v for v in 0 .. d-1.
C7_Wrap ==
    (call.fn = "wrap" /\ call.ret # None) =>
        /\ 0 <= call.ret[1] /\ call.ret[1] < call.args[2]
        /\ call.args[1] = -1 => call.ret[1] = call.args[2] - 1
        /\ call.args[1] = call.args[2] => call.ret[1] = 0
        /\ (0 <= call.args[1] /\ call.args[1] < call.args[2]) =>
              call.ret[1] = call.args[1]

\* wrap(d, d) has returned, for d = 4
C7_Witness == call.fn = "wrap" /\ call.args = <<4, 4>> /\ call.ret # None

\* C8: between ticks the cells of the body are pairwise distinct.
C8_NoDuplicates ==
    pc \in {"loop", "sleep"} =>
        \A i, j \in DOMAIN snake_bits : i # j => snake_bits[i] # snake_bits[j]

\* C9: the body is never empty, the read of the head never panics, the
\* push makes the body one longer, and the body gets shorter only by the
\* removal that follows a push, by one: no tick leaves it shorter.
C9_NonEmpty ==
    /\ Len(snake_bits) >= 1
    /\ [][ /\ Len(snake_bits') >= 1
           /\ pc' # "panic"
           /\ (pc = "push" /\ pc' = "eat") => Len(snake_bits') = Len(snake_bits) + 1
           /\ Len(snake_bits') < Len(snake_bits) =>
                /\ pc = "eat"
                /\ Len(snake_bits') = Len(snake_bits) - 1
         ]_vars

\* the tail was removed from a body of two cells
C9_Witness ==
    /\ pc = "flush" /\ Len(updates) = 2 /\ ~updates[2][3]
    /\ Len(snake_bits) = 1

DsNamed(n) == Len(n) >= 3 /\ SubSeq(n, 1, 3) = "ds_"

DsFiles == {n \in DOMAIN fs : fs[n].kind = "file" /\ DsNamed(n)}

CellFilesBefore(row, col) ==
    {CellFile(r, c) : r \in 0 .. row - 1, c \in 0 .. config.width - 1}
        \cup {CellFile(row, c) : c \in 0 .. col - 1}

DecoyFilesBefore(i) == {DecoyFile(j) : j \in 0 .. i - 1}

\* the ds_ files at each position of startup
StartupFiles ==
    /\ pc \in {"clear_old_files", "clear_loop", "save_decoys", "save_cells", "spawn"} =>
          lpc = "unborn" /\ ticks = 0
    /\ pc = "save_decoys" => DsFiles = DecoyFilesBefore(o)
    /\ pc = "save_cells" =>
          DsFiles = DecoyFilesBefore(config.offset) \cup CellFilesBefore(y, x)
    /\ (\/ pc \in {"spawn", "loop"} /\ ticks = 0
        \/ pc \in {"read_dir", "push", "eat"} /\ ticks = 1) =>
          /\ DsFiles = DecoyFilesBefore(config.offset)
                           \cup CellFilesBefore(config.height, 0)
          /\ Cardinality(DsFiles) = config.width * config.height + config.offset
          /\ Cardinality(DsFiles \ DecoyFilesBefore(config.offset))
                 = config.width * config.height
          /\ \A n \in DsFiles : fs[n].data = "black"
    /\ (config = [width |-> 3, height |-> 2, offset |-> 1] /\ pc = "spawn") =>
          DsFiles = {"ds_p0-0.bmp", "ds_p0-1.bmp", "ds_p0-2.bmp",
                     "ds_p1-0.bmp", "ds_p1-1.bmp", "ds_p1-2.bmp", "ds_o0.bmp"}

\* C10: the old ds_ files are deleted before anything is written; then the
\* decoys and the cells are written, black; when the listener is spawned,
\* and until the first tick's flush, the ds_ files are the width*height
\* cell files and the offset decoy files, all black; startup is over before
\* the listener exists and before a tick starts; no step touches an entry
\* whose name does not start with ds_.
C10_Startup ==
    /\ StartupFiles
    /\ [][ /\ StartupFiles'
           /\ \A n \in DOMAIN fs : ~DsNamed(n) => n \in DOMAIN fs' /\ fs'[n] = fs[n]
           /\ \A n \in DOMAIN fs' : ~DsNamed(n) => n \in DOMAIN fs
         ]_vars

\* startup is done on a directory that held old files
C10_Witness ==
    /\ pc = "spawn"
    /\ config.offset = 1
    /\ "notes.txt" \in DOMAIN fs

\* C11: the step in which listen returns an error ends the listener thread
\* and nothing else: the main thread stays where it is and alive, the shared
\* direction keeps its value (Right when listen failed before any event);
\* from then on the listener never runs again, the shared direction never
\* changes, the mutex is never the listener's (the loop finds it free at
\* the top of every tick), and every tick reads that direction.
C11_ListenerFailure ==
    [][ /\ (lpc # "dead" /\ lpc' = "dead") =>
            /\ pc' = pc
            /\ pc' \notin {"error", "panic"}
            /\ snake_dir' = snake_dir
            /\ lock' # "listener"
            /\ lpc = "listen" => snake_dir = "Right"
        /\ lpc = "dead" =>
            /\ lpc' = "dead"
            /\ snake_dir' = snake_dir
            /\ lock' # "listener"
            /\ pc' = "loop" => lock' = "free"
            /\ tick_dir' # tick_dir => tick_dir' = Some(snake_dir)
            /\ ticks' \in {ticks, ticks + 1}
      ]_vars

\* the listener failed after a turn to Up, and the loop went on to read Up
\* in its third tick
C11_Witness ==
    /\ lpc = "dead"
    /\ snake_dir = "Up"
    /\ ticks = 3 /\ pc = "sleep"
    /\ tick_dir = Some("Up")

\* C12: a write of the flush that fails ends the loop at that write: the
\* update it was on and the ones after it are not written (the directory
\* and the position of the flush stay as they were), and after the error
\* nothing runs any more: no write, no tick, no retry, no listener step.
C12_RenderErrorFatal ==
    [][ /\ (pc = "flush" /\ pc' = "error") =>
            /\ ui <= Len(updates)
            /\ fs' = fs /\ ui' = ui /\ ticks' = ticks
            /\ updates' = updates /\ snake_bits' = snake_bits
        /\ pc # "error"
      ]_vars

\* the second tick wrote its first update and failed on its second
C12_Witness ==
    /\ pc = "error"
    /\ ticks = 2 /\ ui = 2
    /\ fs[CellFile(updates[1][2], updates[1][1])].data = "red"
    /\ ~updates[2][3]
    /\ fs[CellFile(updates[2][2], updates[2][1])].data = "red"

\* one cell from c in direction d on the torus of the grid
TorusNeighbour(d, c) ==
    CASE d = "Up" -> <<c[1], (c[2] + config.height - 1) % config.height>>
      [] d = "Down" -> <<c[1], (c[2] + 1) % config.height>>
      [] d = "Left" -> <<(c[1] + config.width - 1) % config.width, c[2]>>
      [] d = "Right" -> <<(c[1] + 1) % config.width, c[2]>>

\* C13: the shared direction is a single cell: every accepted turn
\* overwrites it at once and nothing else changes it, so it is the latest
\* accepted turn; a tick reads it as it is at the read (the direction of
\* the tick before when no turn was written since) and moves the head in
\* the direction it read, whatever is written later in the tick.
C13_LastTurnWins ==
    [][ /\ snake_dir' # snake_dir =>
            /\ lpc = "cb_write"
            /\ new_dir # None
            /\ snake_dir' = new_dir[1]
            /\ new_dir' = None
        /\ tick_dir' # tick_dir =>
            /\ pc = "read_dir"
            /\ tick_dir' = Some(snake_dir)
        /\ (pc = "read_dir" /\ pc' = "push") =>
            /\ tick_dir' = Some(snake_dir)
            /\ (tick_dir = Some(snake_dir)) <=> (tick_dir' = tick_dir)
        /\ (pc = "push" /\ pc' = "eat" /\ InGrid(Last(snake_bits))) =>
            Last(snake_bits') = TorusNeighbour(tick_dir[1], Last(snake_bits))
      ]_vars

\* the first tick moved Right from (1,1) to (2,1); Up or Down and then Left
\* were accepted; the second tick has read Left and is about to move back
\* to (1,1): the turn to Up or Down moved nothing
C13_Witness ==
    /\ ticks = 2 /\ pc = "push"
    /\ snake_bits = << <<1, 1>>, <<2, 1>> >>
    /\ tick_dir = Some("Left")
    /\ new_xy = <<1, 1>>

\* who holds the lock follows from where each thread is: the game loop
\* holds it in its read only, the listener in its filter and in its write
\* only, and a thread about to acquire does not hold it
LockHeld ==
    /\ lock \in {"free", "main", "listener"}
    /\ (lock = "main") <=> (pc = "read_dir")
    /\ (lock = "listener") <=> (lpc \in {"cb_filter", "cb_write"})
    /\ pc \in {"loop", "flush", "sleep"} => lock # "main"
    /\ lpc \in {"cb_lock", "cb_lock2"} => lock # "listener"

\* a thread waits for the lock
MainWaits == Running /\ pc = "loop" /\ ticks < MaxTicks /\ snake_bits # <<>> /\ lock # "free"
ListenerWaits == Running /\ lpc \in {"cb_lock", "cb_lock2"} /\ lock # "free"

\* whenever a thread waits for the lock, the other thread holds it and its
\* next step releases it
NoLockDeadlock ==
    /\ MainWaits => (lock = "listener" /\ ENABLED (CbFilter \/ CbWrite))
    /\ ListenerWaits => (lock = "main" /\ ENABLED TickRead)

\* C14: the lock has one holder at a time, the holder is in a section that
\* is a single read or a single write of the direction and releases the
\* lock as it leaves it, the game loop holds nothing while it writes files
\* or sleeps, no thread acquires the lock it holds, and whenever a thread
\* waits for the lock the other thread holds it and can release it.
C14_LockDiscipline ==
    /\ LockHeld
    /\ NoLockDeadlock
    /\ [][ /\ LockHeld'
           /\ NoLockDeadlock'
           /\ (lock' # lock /\ lock' # "free") => lock = "free"
           /\ (lock = "main" /\ pc' # pc) =>
                /\ lock' = "free"
                /\ snake_dir' = snake_dir
                /\ tick_dir' = Some(snake_dir)
           /\ (lock = "listener" /\ lpc' # lpc) =>
                /\ lock' = "free"
                /\ lpc = "cb_filter" => snake_dir' = snake_dir
                /\ lpc = "cb_write" => snake_dir' = new_dir[1]
           /\ snake_dir' # snake_dir => lock = "listener"
           /\ fs' # fs => lock # "main"
         ]_vars

\* the listener is in its write section while the game loop writes files,
\* and the game loop is not blocked: it does not need the lock there
C14_Witness ==
    /\ lock = "listener" /\ lpc = "cb_write"
    /\ pc = "flush" /\ ui = 2 /\ ticks = 2

\* C15: without I/O failure and under fair scheduling the startup ends,
\* every tick that starts goes through its read, its body update, its flush
\* and its sleep, and the next tick starts, whatever the listener does
\* meanwhile (nothing, any number of keys, or its end); a tick does not
\* wait for the direction to change.
C15_LoopNeverBlocks ==
    /\ <>(pc = "loop")
    /\ \A n \in 0 .. (LiveTicks - 1) :
          (pc = "loop" /\ ticks = n) ~> (pc = "sleep" /\ ticks = n + 1)
    /\ <>[](pc = "loop" /\ ticks = LiveTicks /\ updates = <<>>)

\* two ticks are over and the direction is the one both of them read,
\* Right: no turn was ever accepted, while the listener is in the middle
\* of a callback
C15_Witness ==
    /\ pc = "loop" /\ ticks = 2
    /\ tick_dir = Some("Right") /\ snake_dir = "Right"
    /\ snake_bits = << <<2, 1>>, <<0, 1>> >>
    /\ lpc = "cb_filter"

\* C16: a step of the listener thread, once spawned, changes nothing of
\* the body, the food, the pending updates and the files, and changes the
\* direction in its write only; a step of the game loop leaves the direction as it is; the food
\* changes only in a tick whose new head is the food, and a tick whose new
\* head is another cell leaves the food where it is.
C16_SeparationOfEffects ==
    [][ /\ (lpc # "unborn" /\ (lpc' # lpc \/ k' # k \/ new_dir' # new_dir)) =>
            /\ UNCHANGED <<snake_bits, food_pos, updates, fs, pc, ui, ticks, tick_dir>>
            /\ snake_dir' # snake_dir => lpc = "cb_write"
        /\ (pc' # pc \/ ui' # ui \/ ticks' # ticks \/ fs' # fs) =>
            /\ snake_dir' = snake_dir
            /\ UNCHANGED <<k, new_dir>>
            /\ lpc' # lpc => (pc = "spawn" /\ lpc = "unborn" /\ lpc' = "listen")
        /\ food_pos' # food_pos =>
            /\ pc = "eat" /\ pc' = "flush"
            /\ Last(snake_bits) = food_pos
        /\ (pc = "eat" /\ pc' = "flush" /\ Last(snake_bits) # food_pos) =>
            /\ food_pos' = food_pos
            /\ updates'[Len(updates')] = <<snake_bits[1][1], snake_bits[1][2], FALSE>>
      ]_vars

\* the second tick read Right and moved to a cell that is not the food; a
\* turn to Up was written since; the food is where the first tick put it
C16_Witness ==
    /\ ticks = 2 /\ pc = "flush" /\ ui = 1
    /\ Len(updates) = 2 /\ ~updates[2][3]
    /\ tick_dir = Some("Right") /\ snake_dir = "Up"
    /\ config.width = 3 /\ config.height = 2
    /\ food_pos = <<1, 0>>
    /\ Last(snake_bits) = <<0, 1>>

\* (dx, dy) of a direction
Delta(d) ==
    CASE d = "Up" -> <<0, -1>>
      [] d = "Down" -> <<0, 1>>
      [] d = "Left" -> <<-1, 0>>
      [] d = "Right" -> <<1, 0>>

\* C17: for a head (x, y) inside the grid and a direction of delta
\* (dx, dy), the new head is ((x + dx) mod width, (y + dy) mod height):
\* Right from the last column gives column 0, Left from column 0 gives the
\* last column, and the coordinate of the other axis is the head's.
C17_TorusStep ==
    (call.fn = "step" /\ call.ret # None) =>
        LET d == call.args[1]
            hx == call.args[2][1]
            hy == call.args[2][2]
            n == call.ret[1]
        IN /\ n[1] = (hx + Delta(d)[1] + config.width) % config.width
           /\ n[2] = (hy + Delta(d)[2] + config.height) % config.height
           /\ (d = "Right" /\ hx = config.width - 1) => n = <<0, hy>>
           /\ (d = "Left" /\ hx = 0) => n = <<config.width - 1, hy>>
           /\ d \in {"Left", "Right"} => n[2] = hy
           /\ d \in {"Up", "Down"} => n[1] = hx

\* Right from (4, 1) on a grid of 5 by 3 has returned (0, 1)
C17_Witness ==
    /\ call.fn = "step" /\ call.ret = Some(<<0, 1>>)
    /\ call.args = <<"Right", <<4, 1>>>>
    /\ config.width = 5 /\ config.height = 3

\* the cells of the grid
GridCells == (0 .. config.width - 1) \X (0 .. config.height - 1)

\* the cells of the body
BodyCells == {snake_bits[i] : i \in DOMAIN snake_bits}

\* C18: after the flush of a tick, the file of every cell of the grid is
\* red if the cell is in the body or is the food, and black otherwise.
C18_RenderedGrid ==
    (pc = "sleep" /\ ticks >= 1) =>
        \A c \in GridCells :
            /\ CellFile(c[2], c[1]) \in DOMAIN fs
            /\ fs[CellFile(c[2], c[1])].data =
                  (IF c \in BodyCells \cup {food_pos} THEN "red" ELSE "black")

\* b is one step from a on the torus: on one axis, the other coordinate
\* equal
TorusAdjacent(a, b) ==
    /\ a # b
    /\ \/ /\ a[2] = b[2]
          /\ \/ b[1] = (a[1] + 1) % config.width
             \/ b[1] = (a[1] + config.width - 1) % config.width
       \/ /\ a[1] = b[1]
          /\ \/ b[2] = (a[2] + 1) % config.height
             \/ b[2] = (a[2] + config.height - 1) % config.height

\* C19: on a grid of width 3 or more and height 2 or more, between ticks
\* every element of the body is one torus step from the element before it.
C19_Contiguity ==
    (config.width >= 3 /\ config.height >= 2 /\ pc \in {"loop", "sleep"}) =>
        \A i \in 1 .. (Len(snake_bits) - 1) :
            TorusAdjacent(snake_bits[i], snake_bits[i + 1])

\* a body of three cells after two ticks to the Right, both eating, and
\* one Up: the second step went around the right edge
C19_Witness ==
    /\ config.width = 3 /\ config.height = 2
    /\ pc = "sleep" /\ ticks = 3
    /\ snake_bits = << <<2, 1>>, <<0, 1>>, <<0, 0>> >>
====
